---- MODULE Spec2Model ----
(***************************************************************************)
(* CineSwap Pro: the aspect-ratio selector and the response adapter of     *)
(* services/geminiService.ts, the file ingestion of components/ImageInput  *)
(* and the session orchestration of the App component.                     *)
(***************************************************************************)
EXTENDS Integers, Sequences, FiniteSets, TLC

VARIABLES
  arWidth, arHeight, arResult,          \* one call of getClosestAspectRatio
  remote, adapterOut,                   \* one response resolution of generateSwappedPoster
  poster, people, isProcessing, result, error,   \* AppState
  hasKey,                               \* credential-selected flag
  keyCheck, keyDialog,                  \* awaits of hasSelectedApiKey / openSelectKey under way
  reads,                                \* FileReader / Image loads not yet completed
  inflight, calls,                      \* generateContent calls not yet settled, calls issued
  readsStarted,                         \* file reads started so far
  lastBatch,                            \* history: the files of the last selection of several
                                        \* files, kept while only loads of reads have followed it
  lastOp, lastRemote, lastAfterReset    \* history: whether the last step was handleProcess, the
                                        \* settling of a call or another handler, the settled call
                                        \* it consumed, and whether that call outlived a resetAll

ratioVars   == <<arWidth, arHeight, arResult>>
adapterVars == <<remote, adapterOut>>
stateVars   == <<poster, people, isProcessing, result, error>>
sessionVars == <<poster, people, isProcessing, result, error, hasKey, keyCheck,
                 keyDialog, reads, inflight, calls, readsStarted, lastBatch, lastOp, lastRemote, lastAfterReset>>
vars == <<arWidth, arHeight, arResult, remote, adapterOut,
          poster, people, isProcessing, result, error, hasKey, keyCheck,
          keyDialog, reads, inflight, calls, readsStarted, lastBatch, lastOp, lastRemote, lastAfterReset>>

\* an optional value (undefined / null, or a value)
None == {}
Some(v) == {v}
IsSome(m) == m # {}
Get(m) == CHOOSE v \in m : TRUE

(***************************************************************************)
(* IEEE-754 double arithmetic, as far as getClosestAspectRatio uses it.    *)
(* A non-negative double is held exactly as a fixed-point number: a tuple  *)
(* <<int, f1, f2, f3, f4>> of 15-bit limbs, most significant first, that   *)
(* counts units of 2^-60.  Every double in [2^-7, 2^15) is a whole number  *)
(* of such units, which covers the quotient w / h of any two dimensions    *)
(* with h / w <= 128, and the differences of such quotients.               *)
(***************************************************************************)
LimbBits == 15
LimbBase == 2^LimbBits
Mantissa == 53

\* the limbs of floor(a * 2^60 / b), and whether the division left a remainder
DivLimbs(a, b) ==
  LET r0 == a % b
      d1 == (r0 * LimbBase) \div b
      r1 == (r0 * LimbBase) % b
      d2 == (r1 * LimbBase) \div b
      r2 == (r1 * LimbBase) % b
      d3 == (r2 * LimbBase) \div b
      r3 == (r2 * LimbBase) % b
      d4 == (r3 * LimbBase) \div b
      r4 == (r3 * LimbBase) % b
  IN  [q |-> <<a \div b, d1, d2, d3, d4>>, sticky |-> (r4 # 0)]

BitLen(x) == CHOOSE k \in 0..(LimbBits + 1) : x < 2^k /\ (k = 0 \/ 2^(k-1) <= x)

NumBitLen(n) ==
  LET top == CHOOSE i \in 1..6 : (i = 6 \/ n[i] > 0) /\ \A j \in 1..(i-1) : n[j] = 0
  IN  IF top = 6 THEN 0 ELSE (5 - top) * LimbBits + BitLen(n[top])

\* round to nearest, ties to even, at 53 significant bits
RoundDouble(n, sticky) ==
  LET p == NumBitLen(n) - Mantissa
  IN  IF p <= 0 THEN n
      ELSE LET m    == 2^p
               low  == n[4] * LimbBase + n[5]
               rem  == low % m
               half == m \div 2
               odd  == ((low \div m) % 2) = 1
               up   == rem > half \/ (rem = half /\ (sticky \/ odd))
               low2 == low - rem + (IF up THEN m ELSE 0)
               c4   == low2 \div (LimbBase * LimbBase)
               f2   == n[3] + c4
               f1   == n[2] + (f2 \div LimbBase)
               int  == n[1] + (f1 \div LimbBase)
           IN  <<int, f1 % LimbBase, f2 % LimbBase,
                 (low2 \div LimbBase) % LimbBase, low2 % LimbBase>>

\* a / b on doubles holding the integers a and b
FDiv(a, b) ==
  LET d == DivLimbs(a, b)
  IN  RoundDouble(d.q, d.sticky)

RECURSIVE LessFrom(_, _, _)
LessFrom(x, y, i) ==
  IF i > 5 THEN FALSE
  ELSE IF x[i] # y[i] THEN x[i] < y[i]
  ELSE LessFrom(x, y, i + 1)

FLess(x, y) == LessFrom(x, y, 1)

\* x - y for x >= y, rounded as the double subtraction rounds it
FSub(x, y) ==
  LET d5 == x[5] - y[5]
      b5 == IF d5 < 0 THEN 1 ELSE 0
      d4 == x[4] - y[4] - b5
      b4 == IF d4 < 0 THEN 1 ELSE 0
      d3 == x[3] - y[3] - b4
      b3 == IF d3 < 0 THEN 1 ELSE 0
      d2 == x[2] - y[2] - b3
      b2 == IF d2 < 0 THEN 1 ELSE 0
      d1 == x[1] - y[1] - b2
  IN  RoundDouble(<<d1, d2 + b2 * LimbBase, d3 + b3 * LimbBase,
                    d4 + b4 * LimbBase, d5 + b5 * LimbBase>>, FALSE)

\* Math.abs(a - b)
FAbsDiff(a, b) == IF FLess(a, b) THEN FSub(b, a) ELSE FSub(a, b)

supported ==
  << [name |-> "9:16", num |-> 9,  den |-> 16],
     [name |-> "3:4",  num |-> 3,  den |-> 4],
     [name |-> "1:1",  num |-> 1,  den |-> 1],
     [name |-> "4:3",  num |-> 4,  den |-> 3],
     [name |-> "16:9", num |-> 16, den |-> 9] >>

CandValue(c) == FDiv(c.num, c.den)

Absent == -1

\* Reduce with <= in place of <: a later candidate wins a tie
RECURSIVE ReduceLaterWins(_, _, _)
ReduceLaterWins(prev, i, ratio) ==
  IF i > Len(supported) THEN prev
  ELSE LET curr == supported[i]
       IN  ReduceLaterWins(IF ~FLess(FAbsDiff(CandValue(prev), ratio), FAbsDiff(CandValue(curr), ratio))
                           THEN curr ELSE prev, i + 1, ratio)

RECURSIVE Reduce(_, _, _)
Reduce(prev, i, ratio) ==
  IF i > Len(supported) THEN prev
  ELSE LET curr == supported[i]
       IN  Reduce(IF FLess(FAbsDiff(CandValue(curr), ratio), FAbsDiff(CandValue(prev), ratio))
                  THEN curr ELSE prev, i + 1, ratio)

getClosestAspectRatio(width, height) ==
  IF width = Absent \/ width = 0 \/ height = Absent \/ height = 0 THEN "3:4"
  ELSE (Reduce(supported[1], 2, FDiv(width, height))).name

(***************************************************************************)
(* Strings.  A string is a sequence of atomic fragments; the empty string  *)
(* is <<>>.  Every literal of the source is one fragment, except the       *)
(* "Requested entity was not found" signature, which is two, so that       *)
(* String.includes stays a search for a contiguous run.                    *)
(***************************************************************************)
Includes(s, needle) ==
  \E i \in 1..(Len(s) - Len(needle) + 1) : SubSeq(s, i, i + Len(needle) - 1) = needle

Truthy(m) == IsSome(m) /\ Get(m) # <<>>

EntityNotFound   == <<"Requested entity was ", "not found">>
KEY_NOT_FOUND    == <<"KEY_NOT_FOUND">>
PngPrefix        == <<"data:image/png;base64,">>
FeedbackPrefix   == <<"AI response: ">>
SafetyMessage    == <<"AI refused to generate the image for safety reasons">>
EmptyMessage     == <<"AI could not generate the image">>
FailedMessage    == <<"Could not obtain the swapped image">>
UnknownMessage   == <<"Unknown error during generation">>
KeyInvalidMessage == <<"API Key invalid or expired, select again">>
NeedKeyMessage    == <<"Pro mode needs an API Key selected first">>
NeedPosterMessage == <<"Please upload a movie poster">>
NeedPersonMessage == <<"Please upload at least one person">>
InstructionText   == <<"TASK: HIGH-END CINEMATIC CHARACTER COMPOSITE AND CREATIVE IMAGE EDITING ...">>

(***************************************************************************)
(* generateSwappedPoster after the await: the settled generateContent call *)
(* is either a response or a rejection carrying an error.                  *)
(***************************************************************************)
Return(v) == [kind |-> "return", value |-> v]
Throw(m)  == [kind |-> "throw",  value |-> m]
\* an error raised inside the try block; its message property is optional
Raise(m)  == [kind |-> "error",  message |-> m]

Resolved(resp) == [kind |-> "resolved", response |-> resp, message |-> None]
Rejected(msg)  == [kind |-> "rejected", response |-> [candidates |-> None], message |-> msg]

\* FirstInline scanning to the end: the last part with inline data
RECURSIVE LastInline(_)
LastInline(parts) ==
  IF parts = <<>> THEN None
  ELSE IF IsSome(LastInline(Tail(parts))) THEN LastInline(Tail(parts))
  ELSE IF IsSome(Head(parts).inlineData) THEN Some(Head(parts))
  ELSE None

RECURSIVE FirstInline(_)
FirstInline(parts) ==
  IF parts = <<>> THEN None
  ELSE IF IsSome(Head(parts).inlineData) THEN Some(Head(parts))
  ELSE FirstInline(Tail(parts))

\* FindText taking any part that has a text field, an empty one too
RECURSIVE FindAnyText(_)
FindAnyText(parts) ==
  IF parts = <<>> THEN None
  ELSE IF IsSome(Head(parts).text) THEN Some(Head(parts))
  ELSE FindAnyText(Tail(parts))

\* Array.prototype.find(p => p.text)
RECURSIVE FindText(_)
FindText(parts) ==
  IF parts = <<>> THEN None
  ELSE IF Truthy(Head(parts).text) THEN Some(Head(parts))
  ELSE FindText(Tail(parts))

\* response.candidates?.[0]
FirstCandidate(response) ==
  IF IsSome(response.candidates) /\ Get(response.candidates) # <<>>
  THEN Some(Head(Get(response.candidates)))
  ELSE None

\* CandidateParts taking an empty list of parts for no parts
CandidatePartsNonEmpty(candidate) ==
  IF IsSome(candidate.content) /\ Get(candidate.content).parts # Some(<<>>)
  THEN Get(candidate.content).parts ELSE None

\* candidate.content?.parts
CandidateParts(candidate) ==
  IF IsSome(candidate.content) THEN Get(candidate.content).parts ELSE None

\* the try block from the await on: a return value, or the message of the error thrown
TryBlock(settled) ==
  IF settled.kind = "rejected" THEN Raise(settled.message)
  ELSE LET candidate == FirstCandidate(settled.response)
       IN  IF candidate = None \/ CandidateParts(Get(candidate)) = None
           THEN IF candidate # None /\ Get(candidate).finishReason = Some("SAFETY")
                THEN Raise(Some(SafetyMessage))
                ELSE Raise(Some(EmptyMessage))
           ELSE LET parts    == Get(CandidateParts(Get(candidate)))
                    image    == FirstInline(parts)
                    textPart == FindText(parts)
                IN  IF IsSome(image)
                    THEN Return(PngPrefix \o Get(Get(image).inlineData).data)
                    ELSE IF IsSome(textPart)
                    THEN Raise(Some(FeedbackPrefix \o Get(Get(textPart).text)))
                    ELSE Raise(Some(FailedMessage))

\* the catch block: what generateSwappedPoster finally throws
CatchBlock(message) ==
  IF IsSome(message) /\ Includes(Get(message), EntityNotFound)
  THEN Throw(KEY_NOT_FOUND)
  ELSE Throw(IF Truthy(message) THEN Get(message) ELSE UnknownMessage)

ResolveOutcome(settled) ==
  LET t == TryBlock(settled)
  IN  IF t.kind = "return" THEN t ELSE CatchBlock(t.message)

(***************************************************************************)
(* The settled generateContent calls the adapter is run on.                *)
(***************************************************************************)
MaxParts == 2

InlinePart(data, mime) == [inlineData |-> Some([data |-> data, mimeType |-> mime]), text |-> None]
TextPart(t)            == [inlineData |-> None, text |-> Some(t)]
OtherPart              == [inlineData |-> None, text |-> None]

Refusal      == <<"I cannot edit this image">>
NotFoundText == <<"The model said: ">> \o EntityNotFound

ResponseParts ==
  { InlinePart(<<"XYZ">>, "image/png"), InlinePart(<<"ABC">>, "image/jpeg"),
    TextPart(<<>>), TextPart(Refusal), TextPart(NotFoundText), OtherPart }

RECURSIVE SeqsUpTo(_, _)
SeqsUpTo(S, n) ==
  IF n = 0 THEN {<<>>}
  ELSE LET shorter == SeqsUpTo(S, n - 1)
       IN  shorter \cup {Append(q, x) : q \in shorter, x \in S}

Candidate(reason, content) == [finishReason |-> reason, content |-> content]

Candidates(maxParts) ==
  { Candidate(reason, content) :
      reason  \in {None, Some("STOP"), Some("SAFETY")},
      content \in {None, Some([parts |-> None])}
                    \cup {Some([parts |-> Some(ps)]) : ps \in SeqsUpTo(ResponseParts, maxParts)} }

\* a further candidate after the first one
SecondCandidate == Candidate(Some("SAFETY"), Some([parts |-> Some(<<InlinePart(<<"ABC">>, "image/jpeg")>>)]))

Responses(maxParts) ==
  {[candidates |-> None], [candidates |-> Some(<<>>)]}
    \cup {[candidates |-> Some(<<c>>)] : c \in Candidates(maxParts)}
    \cup {[candidates |-> Some(<<c, SecondCandidate>>)] : c \in Candidates(maxParts)}

ErrorMessages ==
  { None, Some(<<>>), Some(<<"Network error">>), Some(KEY_NOT_FOUND),
    Some(EntityNotFound),
    Some(<<"404: ">> \o EntityNotFound \o <<" (KEY_NOT_FOUND)">>),
    Some(<<"not found", "Requested entity was ">>) }

Settlements(maxParts) ==
  {Resolved(r) : r \in Responses(maxParts)} \cup {Rejected(m) : m \in ErrorMessages}

NotRun == [kind |-> "none", value |-> <<>>]

(***************************************************************************)
(* Image ingestion (components/ImageInput.tsx).                            *)
(***************************************************************************)
maxFiles == 5

FileA == [name |-> "a.png", type |-> "image/png",  content |-> <<"AAAA">>, width |-> 1000, height |-> 1500]
FileB == [name |-> "b.jpg", type |-> "image/jpeg", content |-> <<"BBBB">>, width |-> 700,  height |-> 600]
Files == {FileA, FileB}

\* FileReader.readAsDataURL
DataUrl(file) == <<"data:", file.type, ";base64", ",">> \o file.content

\* dataUrl.split(',')[1]
RECURSIVE UpToComma(_)
UpToComma(s) ==
  IF s = <<>> \/ Head(s) = "," THEN <<>> ELSE <<Head(s)>> \o UpToComma(Tail(s))

RECURSIVE AfterComma(_)
AfterComma(s) ==
  IF s = <<>> THEN <<>> ELSE IF Head(s) = "," THEN Tail(s) ELSE AfterComma(Tail(s))

SplitSecond(s) == UpToComma(AfterComma(s))

\* Math.random().toString(36).substr(2, 9): an identifier no image on screen has
UsedIds == {p.id : p \in poster} \cup {people[i].id : i \in 1..Len(people)}
NewId == CHOOSE n \in 1..(Cardinality(UsedIds) + 1) :
           n \notin UsedIds /\ \A k \in 1..(n - 1) : k \in UsedIds

\* the record img.onload hands to onUpload
UploadedImage(file, id) ==
  [id |-> id, url |-> DataUrl(file), base64 |-> SplitSecond(DataUrl(file)),
   mimeType |-> file.type, name |-> file.name,
   width |-> file.width, height |-> file.height]

\* the files handleFileChange starts a reader for, from index i on
RECURSIVE ReadersStarted(_, _, _, _)
ReadersStarted(files, i, multiple, shown) ==
  IF i >= Len(files) THEN <<>>
  ELSE IF multiple /\ shown + i >= maxFiles THEN <<>>
  ELSE IF ~multiple THEN <<files[i + 1]>>
  ELSE <<files[i + 1]>> \o ReadersStarted(files, i + 1, multiple, shown)

RemoveAt(s, i) == SubSeq(s, 1, i - 1) \o SubSeq(s, i + 1, Len(s))

RECURSIVE Filter(_, _)
Filter(s, id) ==
  IF s = <<>> THEN <<>>
  ELSE IF Head(s).id # id THEN <<Head(s)>> \o Filter(Tail(s), id)
  ELSE Filter(Tail(s), id)

(***************************************************************************)
(* The request generateSwappedPoster sends.                                *)
(***************************************************************************)
ImagePart(image) == InlinePart(image.base64, image.mimeType)

\* BuildParts with the person images in reverse order
BuildPartsReversed(aPoster, somePeople) ==
  <<ImagePart(aPoster)>>
    \o [i \in 1..Len(somePeople) |-> ImagePart(somePeople[Len(somePeople) + 1 - i])]
    \o <<TextPart(InstructionText)>>

BuildParts(aPoster, somePeople) ==
  <<ImagePart(aPoster)>>
    \o [i \in 1..Len(somePeople) |-> ImagePart(somePeople[i])]
    \o <<TextPart(InstructionText)>>

BuildRequest(aPoster, somePeople) ==
  [model       |-> "gemini-3-pro-image-preview",
   parts       |-> BuildParts(aPoster, somePeople),
   aspectRatio |-> getClosestAspectRatio(aPoster.width, aPoster.height),
   imageSize   |-> "1K"]

(***************************************************************************)
(* Bounds of the explored behaviours.                                      *)
(***************************************************************************)
MaxWidth       == 21     \* dimensions tried on the aspect-ratio selector
MaxHeight      == 32
MaxBatch       == 1      \* files chosen in one selection
MaxPending     == 1      \* file reads under way at the same time
MaxReads       == 3      \* file reads started in one session
MaxCalls       == 1      \* generateContent calls issued in one session

\* the bounds one specification explores: files per selection, reads under way,
\* reads started, calls issued
Bounds(batch, pending, started, issued) ==
  [batch |-> batch, pending |-> pending, reads |-> started, calls |-> issued]

SessionBounds == Bounds(MaxBatch, MaxPending, MaxReads, MaxCalls)
HandlerBounds == Bounds(MaxBatch, MaxPending, MaxReads - 1, MaxCalls)
GateBounds    == Bounds(MaxBatch, MaxPending, MaxReads + 1, MaxCalls + 1)
UploadBounds  == Bounds(MaxBatch + 1, MaxPending + 1, maxFiles + 1, MaxCalls)

(***************************************************************************)
(* Session orchestration (the App component).                              *)
(***************************************************************************)
NoRemote == [kind |-> "none", response |-> [candidates |-> None], message |-> None]

\* the history a handler leaves; no handler touches the variables of the
\* selector and adapter runs explored on their own
Record(op, settled, afterReset) ==
  /\ lastOp' = op
  /\ lastRemote' = settled
  /\ lastAfterReset' = afterReset
  /\ UNCHANGED <<ratioVars, adapterVars>>

Note(op, settled, afterReset) == Record(op, settled, afterReset) /\ lastBatch' = <<>>

\* the history a step of the ingestion leaves: a selection of several files
\* records them
NoteIngestion(files) == Record("other", NoRemote, FALSE) /\ lastBatch' = files

\* the settled calls tried on a session
SessionSettlements ==
  { Resolved([candidates |-> Some(<<Candidate(Some("STOP"),
        Some([parts |-> Some(<<InlinePart(<<"XYZ">>, "image/png")>>)]))>>)]),
    Resolved([candidates |-> Some(<<Candidate(Some("STOP"),
        Some([parts |-> Some(<<TextPart(Refusal)>>)]))>>)]),
    Resolved([candidates |-> Some(<<Candidate(Some("SAFETY"), None)>>)]),
    Rejected(Some(<<"404: ">> \o EntityNotFound \o <<" (KEY_NOT_FOUND)">>)),
    Rejected(Some(KEY_NOT_FOUND)),
    Rejected(Some(<<"Network error">>)),
    Rejected(None) }

\* useEffect -> checkApiKeyStatus: the await of hasSelectedApiKey settles
checkApiKeyStatus(selected) ==
  /\ keyCheck = "pending"
  /\ keyCheck' = "done"
  /\ hasKey' = IF IsSome(selected) THEN Get(selected) ELSE hasKey
  /\ Note("other", NoRemote, FALSE)
  /\ UNCHANGED <<stateVars, keyDialog, reads, inflight, calls, readsStarted>>

\* the "select API key" buttons are rendered while !hasKey; the host's dialog is
\* modal, so no second one is opened while one is awaited
handleOpenKeyDialog ==
  /\ ~hasKey
  /\ ~keyDialog
  /\ keyDialog' = TRUE
  /\ Note("other", NoRemote, FALSE)
  /\ UNCHANGED <<stateVars, hasKey, keyCheck, reads, inflight, calls, readsStarted>>

\* the await of openSelectKey settles; setHasKey(true) follows unless it rejected
openSelectKeySettled(fulfilled) ==
  /\ keyDialog
  /\ keyDialog' = FALSE
  /\ hasKey' = IF fulfilled THEN TRUE ELSE hasKey
  /\ Note("other", NoRemote, FALSE)
  /\ UNCHANGED <<stateVars, keyCheck, reads, inflight, calls, readsStarted>>

\* ImageInput.handleFileChange on the poster input or the people input
handleFileChange(target, files, b) ==
  LET multiple == (target = "people")
      shown    == IF multiple THEN Len(people) ELSE Cardinality(poster)
      started  == ReadersStarted(files, 0, multiple, shown)
  IN  /\ IF multiple THEN shown < maxFiles ELSE shown = 0
      /\ started # <<>>
      /\ Len(reads) + Len(started) <= b.pending
      /\ readsStarted + Len(started) <= b.reads
      /\ reads' = reads \o [i \in 1..Len(started) |-> [target |-> target, file |-> started[i]]]
      /\ readsStarted' = readsStarted + Len(started)
      /\ NoteIngestion(IF Len(started) > 1 THEN started ELSE <<>>)
      /\ UNCHANGED <<stateVars, hasKey, keyCheck, keyDialog, inflight, calls>>

handlePosterUpload(image) ==
  /\ poster' = Some(image)
  /\ error' = None
  /\ UNCHANGED <<people, isProcessing, result>>

handlePersonUploadFront(image) ==
  /\ people' = <<image>> \o people
  /\ error' = None
  /\ UNCHANGED <<poster, isProcessing, result>>

handlePersonUpload(image) ==
  /\ people' = Append(people, image)
  /\ error' = None
  /\ UNCHANGED <<poster, isProcessing, result>>

\* reader.onloadend and then img.onload of the i-th pending read
imageLoaded(i) ==
  /\ i \in 1..Len(reads)
  /\ LET image == UploadedImage(reads[i].file, NewId)
     IN  IF reads[i].target = "poster"
         THEN handlePosterUpload(image)
         ELSE handlePersonUpload(image)
  /\ reads' = RemoveAt(reads, i)
  /\ NoteIngestion(lastBatch)
  /\ UNCHANGED <<hasKey, keyCheck, keyDialog, inflight, calls, readsStarted>>

\* the read or the decode of the i-th pending read fails: img.onload never runs
readFailed(i) ==
  /\ i \in 1..Len(reads)
  /\ reads' = RemoveAt(reads, i)
  /\ NoteIngestion(lastBatch)
  /\ UNCHANGED <<stateVars, hasKey, keyCheck, keyDialog, inflight, calls, readsStarted>>

handleRemovePoster ==
  /\ poster # None
  /\ poster' = None
  /\ Note("other", NoRemote, FALSE)
  /\ UNCHANGED <<people, isProcessing, result, error, hasKey, keyCheck, keyDialog,
                 reads, inflight, calls, readsStarted>>

handleRemovePerson(id) ==
  /\ \E i \in 1..Len(people) : people[i].id = id
  /\ people' = Filter(people, id)
  /\ Note("other", NoRemote, FALSE)
  /\ UNCHANGED <<poster, isProcessing, result, error, hasKey, keyCheck, keyDialog,
                 reads, inflight, calls, readsStarted>>

\* resetAll; an in-flight call is not aborted (the reset field only remembers the reset)
resetAll ==
  /\ poster' = None
  /\ people' = <<>>
  /\ isProcessing' = FALSE
  /\ result' = None
  /\ error' = None
  /\ inflight' = {[r EXCEPT !.reset = TRUE] : r \in inflight}
  /\ Note("other", NoRemote, FALSE)
  /\ UNCHANGED <<hasKey, keyCheck, keyDialog, reads, calls, readsStarted>>

\* handleProcess raising the processing flag before it checks its preconditions
handleProcessEager(b) ==
  /\ IF ~hasKey \/ poster = None \/ Len(people) = 0
     THEN /\ error' = Some(IF ~hasKey THEN NeedKeyMessage
                           ELSE IF poster = None THEN NeedPosterMessage
                           ELSE NeedPersonMessage)
          /\ isProcessing' = TRUE
          /\ UNCHANGED <<result, inflight, calls>>
     ELSE /\ calls < b.calls
          /\ isProcessing' = TRUE
          /\ error' = None
          /\ result' = None
          /\ calls' = calls + 1
          /\ inflight' = inflight \cup
               {[id |-> calls + 1, request |-> BuildRequest(Get(poster), people), reset |-> FALSE]}
  /\ Note("handleProcess", NoRemote, FALSE)
  /\ UNCHANGED <<poster, people, hasKey, keyCheck, keyDialog, reads, readsStarted>>

\* handleProcess up to the await of generateSwappedPoster
handleProcess(b) ==
  /\ IF ~hasKey
     THEN /\ error' = Some(NeedKeyMessage)
          /\ UNCHANGED <<isProcessing, result, inflight, calls>>
     ELSE IF poster = None
     THEN /\ error' = Some(NeedPosterMessage)
          /\ UNCHANGED <<isProcessing, result, inflight, calls>>
     ELSE IF Len(people) = 0
     THEN /\ error' = Some(NeedPersonMessage)
          /\ UNCHANGED <<isProcessing, result, inflight, calls>>
     ELSE /\ calls < b.calls
          /\ isProcessing' = TRUE
          /\ error' = None
          /\ result' = None
          /\ calls' = calls + 1
          /\ inflight' = inflight \cup
               {[id |-> calls + 1, request |-> BuildRequest(Get(poster), people), reset |-> FALSE]}
  /\ Note("handleProcess", NoRemote, FALSE)
  /\ UNCHANGED <<poster, people, hasKey, keyCheck, keyDialog, reads, readsStarted>>

\* the disabled attribute of the generate button
Disabled == isProcessing \/ poster = None \/ Len(people) = 0 \/ ~hasKey

clickGenerate(b) == ~Disabled /\ handleProcess(b)

\* generateContentSettled dropping the outcome of a call that a resetAll overtook
generateContentSettledUnlessReset(r, settled) ==
  /\ r \in inflight
  /\ inflight' = inflight \ {r}
  /\ LET outcome == ResolveOutcome(settled)
     IN  IF r.reset
         THEN UNCHANGED <<result, isProcessing, error, hasKey>>
         ELSE IF outcome.kind = "return"
         THEN /\ result' = Some(outcome.value)
              /\ isProcessing' = FALSE
              /\ UNCHANGED <<error, hasKey>>
         ELSE IF outcome.value = KEY_NOT_FOUND
         THEN /\ hasKey' = FALSE
              /\ isProcessing' = FALSE
              /\ error' = Some(KeyInvalidMessage)
              /\ UNCHANGED result
         ELSE /\ error' = Some(outcome.value)
              /\ isProcessing' = FALSE
              /\ UNCHANGED <<result, hasKey>>
  /\ Note("generateContentSettled", settled, r.reset)
  /\ UNCHANGED <<poster, people, keyCheck, keyDialog, reads, calls, readsStarted>>

\* the generateContent call of request r settles: the rest of generateSwappedPoster
\* and of handleProcess run
generateContentSettled(r, settled) ==
  /\ r \in inflight
  /\ inflight' = inflight \ {r}
  /\ LET outcome == ResolveOutcome(settled)
     IN  IF outcome.kind = "return"
         THEN /\ result' = Some(outcome.value)
              /\ isProcessing' = FALSE
              /\ UNCHANGED <<error, hasKey>>
         ELSE IF outcome.value = KEY_NOT_FOUND
         THEN /\ hasKey' = FALSE
              /\ isProcessing' = FALSE
              /\ error' = Some(KeyInvalidMessage)
              /\ UNCHANGED result
         ELSE /\ error' = Some(outcome.value)
              /\ isProcessing' = FALSE
              /\ UNCHANGED <<result, hasKey>>
  /\ Note("generateContentSettled", settled, r.reset)
  /\ UNCHANGED <<poster, people, keyCheck, keyDialog, reads, calls, readsStarted>>

Batches(b) == SeqsUpTo(Files, b.batch) \ {<<>>}

SessionInit ==
  /\ poster = None
  /\ people = <<>>
  /\ isProcessing = FALSE
  /\ result = None
  /\ error = None
  /\ hasKey = FALSE
  /\ keyCheck = "pending"
  /\ keyDialog = FALSE
  /\ reads = <<>>
  /\ inflight = {}
  /\ calls = 0
  /\ readsStarted = 0
  /\ lastOp = "mount"
  /\ lastRemote = NoRemote
  /\ lastAfterReset = FALSE
  /\ lastBatch = <<>>

RatioIdle   == arWidth = Absent /\ arHeight = Absent /\ arResult = "none"
AdapterIdle == remote = NoRemote /\ adapterOut = NotRun

Init == SessionInit /\ RatioIdle /\ AdapterIdle

Ingestion(b) ==
  \/ \E target \in {"poster", "people"}, files \in Batches(b) : handleFileChange(target, files, b)
  \/ \E i \in 1..b.pending : imageLoaded(i)
  \/ \E i \in 1..b.pending : readFailed(i)
  \/ handleRemovePoster
  \/ \E id \in 1..(maxFiles + b.pending + 1) : handleRemovePerson(id)
  \/ resetAll

Credential ==
  \/ \E selected \in {None, Some(TRUE), Some(FALSE)} : checkApiKeyStatus(selected)
  \/ handleOpenKeyDialog
  \/ \E fulfilled \in BOOLEAN : openSelectKeySettled(fulfilled)

Settling == \E r \in inflight, settled \in SessionSettlements : generateContentSettled(r, settled)

\* the session as the user interface lets it run
Next ==
  \/ Ingestion(SessionBounds)
  \/ Credential
  \/ clickGenerate(SessionBounds)
  \/ Settling

Spec == Init /\ [][Next]_vars

\* the same with more uploads and calls
NextGate ==
  \/ Ingestion(GateBounds)
  \/ Credential
  \/ clickGenerate(GateBounds)
  \/ Settling

SpecGate == Init /\ [][NextGate]_vars

\* the session with handleProcess run whatever the generate button shows
NextHandler ==
  \/ Ingestion(HandlerBounds)
  \/ Credential
  \/ handleProcess(HandlerBounds)
  \/ Settling

SpecHandler == Init /\ [][NextHandler]_vars

\* the ingestion alone
NextUpload == Ingestion(UploadBounds)

SpecUpload == Init /\ [][NextUpload]_vars

(***************************************************************************)
(* The aspect-ratio selector on its own.                                   *)
(***************************************************************************)
Dimensions(max) == {Absent} \cup 0..max

RatioInit ==
  /\ arWidth \in Dimensions(MaxWidth)
  /\ arHeight \in Dimensions(MaxHeight)
  /\ arResult = "none"

selectRatio ==
  /\ arResult = "none"
  /\ arResult' = getClosestAspectRatio(arWidth, arHeight)
  /\ UNCHANGED <<arWidth, arHeight, adapterVars, sessionVars>>

InitRatio == RatioInit /\ AdapterIdle /\ SessionInit

SpecRatio == InitRatio /\ [][selectRatio]_vars

Abs(x) == IF x < 0 THEN -x ELSE x

\* |c - w/h| < |d - w/h| over the rationals, for h > 0
ExactlyCloser(c, d, w, h) ==
  Abs(c.num * h - c.den * w) * d.den < Abs(d.num * h - d.den * w) * c.den

\* the same as the doubles of the source compute it
ComputedCloser(c, d, w, h) ==
  FLess(FAbsDiff(CandValue(c), FDiv(w, h)), FAbsDiff(CandValue(d), FDiv(w, h)))

Selected == CHOOSE k \in 1..Len(supported) : supported[k].name = arResult

\* C1 as stated: for height > 0 the result is one of the five candidates, it
\* minimises |candidate - width/height|, and of several minimisers it is the
\* first in the order 9:16, 3:4, 1:1, 4:3, 16:9.
C1_AsStated ==
  (arResult # "none" /\ arWidth # Absent /\ arHeight > 0) =>
     /\ \E k \in 1..Len(supported) : supported[k].name = arResult
     /\ \A j \in 1..Len(supported) :
          /\ ~ExactlyCloser(supported[j], supported[Selected], arWidth, arHeight)
          /\ j < Selected => ExactlyCloser(supported[Selected], supported[j], arWidth, arHeight)

\* C1 amended: for positive integer width and height the result is one of the five
\* candidates and minimises |candidate - width/height|; of candidates whose
\* distances are equal as the double arithmetic computes them the first one in
\* the fixed order is returned (so 21x32 yields 9:16, but 7x6 yields 4:3 and
\* 14x9 yields 16:9, where rounding makes the later candidate strictly closer).
C1_ClosestRatio ==
  (arResult # "none" /\ arWidth > 0 /\ arHeight > 0) =>
     /\ \E k \in 1..Len(supported) : supported[k].name = arResult
     /\ \A j \in 1..Len(supported) :
          /\ ~ExactlyCloser(supported[j], supported[Selected], arWidth, arHeight)
          /\ ~ComputedCloser(supported[j], supported[Selected], arWidth, arHeight)
          /\ j < Selected => ComputedCloser(supported[Selected], supported[j], arWidth, arHeight)

C1_Witness ==
  \/ arWidth = 7 /\ arHeight = 6 /\ arResult = "4:3"
  \/ arWidth = 21 /\ arHeight = 32 /\ arResult = "9:16"

(***************************************************************************)
(* The response resolution on its own.                                     *)
(***************************************************************************)
AdapterInit ==
  /\ remote \in Settlements(MaxParts)
  /\ adapterOut = NotRun

resolveOutcome ==
  /\ adapterOut = NotRun
  /\ adapterOut' = ResolveOutcome(remote)
  /\ UNCHANGED <<remote, ratioVars, sessionVars>>

InitAdapter == AdapterInit /\ RatioIdle /\ SessionInit

SpecAdapter == InitAdapter /\ [][resolveOutcome]_vars

\* what the response of the settled call holds, read off without the adapter
HasFirst   == remote.kind = "resolved" /\ remote.response.candidates \notin {None, Some(<<>>)}
First      == Get(remote.response.candidates)[1]
HasContent == HasFirst /\ First.content # None
HasParts   == HasContent /\ Get(First.content).parts # None
Parts      == Get(Get(First.content).parts)
IsInline(i) == Parts[i].inlineData # None
HasText(i)  == Parts[i].text # None
Ran == adapterOut # NotRun

\* C2: when a part of the first candidate carries inline data, the adapter
\* returns "data:image/png;base64," followed by the data of the first such
\* part, whatever the other parts and the finish reason are.
C2_FirstInlineReturned ==
  (Ran /\ HasParts /\ \E i \in 1..Len(Parts) : IsInline(i)) =>
     \E i \in 1..Len(Parts) :
        /\ IsInline(i)
        /\ \A j \in 1..(i - 1) : ~IsInline(j)
        /\ adapterOut = Return(PngPrefix \o Get(Parts[i].inlineData).data)

C2_Witness ==
  /\ Ran /\ HasParts /\ Len(Parts) = 2
  /\ HasText(1) /\ IsInline(2)
  /\ First.finishReason = Some("SAFETY")
  /\ adapterOut = Return(PngPrefix \o <<"ABC">>)

\* C3 as stated: with no inline part and at least one text part, the adapter
\* throws an error whose message is exactly the first text part's text.
C3_AsStated ==
  (Ran /\ HasParts /\ (\A i \in 1..Len(Parts) : ~IsInline(i)) /\ (\E i \in 1..Len(Parts) : HasText(i))) =>
     \E i \in 1..Len(Parts) :
        /\ HasText(i)
        /\ \A j \in 1..(i - 1) : ~HasText(j)
        /\ adapterOut = Throw(Get(Parts[i].text))

\* C3 amended: with no inline part and at least one part with a non-empty
\* text, the adapter throws; the message is "AI response: " followed by the
\* first non-empty text, unless that text contains "Requested entity was not
\* found", in which case the message is KEY_NOT_FOUND.
C3_FeedbackThrown ==
  (Ran /\ HasParts /\ (\A i \in 1..Len(Parts) : ~IsInline(i))
       /\ (\E i \in 1..Len(Parts) : HasText(i) /\ Get(Parts[i].text) # <<>>)) =>
     \E i \in 1..Len(Parts) :
        /\ HasText(i) /\ Get(Parts[i].text) # <<>>
        /\ \A j \in 1..(i - 1) : ~(HasText(j) /\ Get(Parts[j].text) # <<>>)
        /\ adapterOut = IF Includes(Get(Parts[i].text), EntityNotFound)
                        THEN Throw(KEY_NOT_FOUND)
                        ELSE Throw(FeedbackPrefix \o Get(Parts[i].text))

C3_Witness ==
  /\ Ran /\ HasParts /\ Len(Parts) = 2
  /\ Parts[1] = TextPart(<<>>) /\ Parts[2] = TextPart(Refusal)
  /\ adapterOut = Throw(FeedbackPrefix \o Refusal)

SafetyOrEmpty ==
  adapterOut = IF HasFirst /\ First.finishReason = Some("SAFETY")
               THEN Throw(SafetyMessage) ELSE Throw(EmptyMessage)

\* C4 as stated: with no first candidate, or a first candidate with no content,
\* no parts or an empty list of parts, the adapter throws the SAFETY message if
\* the finish reason is SAFETY and the empty-result message otherwise.
C4_AsStated ==
  (Ran /\ remote.kind = "resolved" /\ (~HasParts \/ Parts = <<>>)) => SafetyOrEmpty

\* C4 amended: with no first candidate, or a first candidate whose content or
\* whose parts are absent, the adapter throws the SAFETY message if the finish
\* reason is SAFETY and the empty-result message otherwise; with an empty list
\* of parts it throws the GENERATION_FAILED message whatever the finish reason.
C4_NoPartsThrown ==
  /\ (Ran /\ remote.kind = "resolved" /\ ~HasParts) => SafetyOrEmpty
  /\ (Ran /\ HasParts /\ Parts = <<>>) => adapterOut = Throw(FailedMessage)

C4_Witness ==
  /\ Ran /\ HasFirst /\ ~HasContent
  /\ First.finishReason = Some("SAFETY")
  /\ adapterOut = Throw(SafetyMessage)

(***************************************************************************)
(* The session.                                                            *)
(***************************************************************************)
Settles  == lastOp' = "generateContentSettled"
Triggers == lastOp' = "handleProcess"

\* the message of the failure the settled call led to, if it has one
FailureMessage(settled) == TryBlock(settled).message
Failed(settled) == TryBlock(settled).kind = "error"
HasSignature(settled) ==
  Failed(settled) /\ IsSome(FailureMessage(settled))
                  /\ Includes(Get(FailureMessage(settled)), EntityNotFound)

\* C5 as stated: when the remote call fails with a message that contains
\* "Requested entity was not found", handleProcess ends with hasKey false, the
\* invalid-key error and isProcessing false; after every failure whose message
\* does not contain it, hasKey is what it was.
C5_AsStated ==
  [][Settles =>
       /\ (lastRemote'.kind = "rejected" /\ HasSignature(lastRemote')) =>
             (hasKey' = FALSE /\ error' = Some(KeyInvalidMessage) /\ isProcessing' = FALSE)
       /\ (Failed(lastRemote') /\ ~HasSignature(lastRemote')) => hasKey' = hasKey]_vars

PreconditionMessages == {Some(NeedKeyMessage), Some(NeedPosterMessage), Some(NeedPersonMessage)}

\* C6: when handleProcess runs with no credential selected, no poster or no
\* person image, it sets error to a precondition message, issues no remote call
\* and leaves isProcessing, result, poster and people as they were.
C6_PreconditionError ==
  [][(Triggers /\ (~hasKey \/ poster = None \/ people = <<>>)) =>
       /\ error' \in PreconditionMessages
       /\ calls' = calls /\ inflight' = inflight
       /\ isProcessing' = isProcessing /\ result' = result
       /\ poster' = poster /\ people' = people]_vars

C6_Witness ==
  /\ lastOp = "handleProcess"
  /\ hasKey /\ poster = None /\ isProcessing /\ inflight # {}
  /\ error = Some(NeedPosterMessage)

\* C7 as stated: the person list never holds more than 5 images.
C7_AsStated == Len(people) <= maxFiles

\* C8 as stated: at most one generation request is in flight at any time.
C8_AsStated == Cardinality(inflight) <= 1

\* C9: a triggered generation issues exactly one remote call; the step in
\* which the call settles issues no further call, removes that one request,
\* sets isProcessing to false and writes either the result (the adapter
\* returned) or the error (the adapter threw), leaving the other as it was,
\* also when a resetAll came between the trigger and the settling.
C9_OneOutcome ==
  [][/\ (Triggers /\ ~Disabled) =>
          /\ calls' = calls + 1
          /\ \E r \in inflight' : r.id = calls' /\ r \notin inflight /\ inflight' = inflight \cup {r}
     /\ Settles =>
          /\ calls' = calls
          /\ \E r \in inflight : inflight' = inflight \ {r} /\ r.reset = lastAfterReset'
          /\ isProcessing' = FALSE
          /\ LET outcome == ResolveOutcome(lastRemote')
             IN  \/ outcome.kind = "return" /\ result' = Some(outcome.value) /\ error' = error
                 \/ outcome.kind = "throw" /\ error' # None /\ result' = result
     /\ (~Triggers /\ ~Settles) => calls' = calls]_vars

C9_Witness ==
  /\ lastOp = "generateContentSettled" /\ lastAfterReset
  /\ poster = None /\ people = <<>>
  /\ result = Some(PngPrefix \o <<"XYZ">>) /\ error = None /\ ~isProcessing

InlineOf(image) == Some([data |-> image.base64, mimeType |-> image.mimeType])

\* C10: the request issued for N person images has N + 2 parts: the poster's
\* content and MIME type, then the person images' in the order of the list at
\* the trigger, then the instruction text; no later step changes the parts of
\* a request in flight.
C10_RequestParts ==
  [][/\ \A r \in inflight' :
          (r.id \notin {q.id : q \in inflight}) =>
             /\ poster # None
             /\ Len(r.request.parts) = Len(people) + 2
             /\ r.request.parts[1] = [inlineData |-> InlineOf(Get(poster)), text |-> None]
             /\ \A i \in 1..Len(people) :
                  r.request.parts[i + 1] = [inlineData |-> InlineOf(people[i]), text |-> None]
             /\ r.request.parts[Len(people) + 2] = [inlineData |-> None, text |-> Some(InstructionText)]
     /\ \A r \in inflight, q \in inflight' : r.id = q.id => q.request.parts = r.request.parts]_vars

C10_Witness ==
  \E r \in inflight :
     /\ Len(r.request.parts) = 4
     /\ r.request.parts[2].inlineData = Some([data |-> <<"AAAA">>, mimeType |-> "image/png"])
     /\ r.request.parts[3].inlineData = Some([data |-> <<"BBBB">>, mimeType |-> "image/jpeg"])
     /\ r.reset /\ poster = None /\ people = <<>>

\* the record appended by a step is the one img.onload builds for the file
RecordOf(image, file) ==
  /\ image.base64 = file.content
  /\ image.mimeType = file.type
  /\ image.name = file.name
  /\ image.width = file.width
  /\ image.height = file.height

\* C11: the files of one selection in multiple mode load independently: a
\* selection itself leaves the person list alone; whenever the list grows it
\* grows by exactly one record, placed after the entries already there, which
\* keep their order, and that record is the one of a pending person read that
\* completed in this step, whichever its position among the pending reads,
\* the other reads staying pending. The list order is thus the completion
\* order, which may differ from the selection order.
C11_AppendOnCompletion ==
  [][/\ Len(reads') > Len(reads) => people' = people
     /\ Len(people') > Len(people) =>
          /\ Len(people') = Len(people) + 1
          /\ SubSeq(people', 1, Len(people)) = people
          /\ \E i \in 1..Len(reads) :
               /\ reads[i].target = "people"
               /\ RecordOf(people'[Len(people')], reads[i].file)
               /\ reads' = RemoveAt(reads, i)]_vars

\* one selection of a.png then b.jpg, the only reads ever started, has left
\* the list in the order b.jpg, a.png
C11_Witness ==
  /\ lastBatch = <<FileA, FileB>>
  /\ readsStarted = 2
  /\ reads = <<>>
  /\ Len(people) = 2
  /\ RecordOf(people[1], FileB)
  /\ RecordOf(people[2], FileA)

====
